---- MODULE Spec2Model ----
(***************************************************************************)
(* Model of src/app.py: get_data (three queries, unit-path resolution,     *)
(* specialty merge, column clean-up, rank sort) followed by main (filter   *)
(* options, multiselect selection, query filter, specialty mask, KPIs).    *)
(*                                                                         *)
(* Text values that the code takes apart or puts together (unit siglas,    *)
(* unit paths, specialty labels and their GROUP_CONCAT) are sequences of   *)
(* one-character strings, so that join, split, strip and startswith are    *)
(* computed character by character.  Values that are only compared (names, *)
(* rank and corps siglas) are plain strings.                               *)
(***************************************************************************)
EXTENDS Integers, Sequences, FiniteSets, TLC

(* ------------------------------ bounds ------------------------------ *)
\* number of rows of table Unidade when the parent links are enumerated
NUnits == 3
\* largest number of rows of table Militar when the rows are enumerated
MaxMembers == 2
\* number of rows of table Especialidade
NSpecs == 2
\* cap on the iterations of the while loop of get_unit_path_optimized that
\* the model follows (the loop itself has no cap)
MaxHops == NUnits + 2

(* ---------------------------- text values --------------------------- *)
\* SQL NULL / pandas NaN in an id column: the value pd.notna rejects
NULL == 0
\* an id that is the key of no row of any table
MissingId == NUnits + NSpecs + 5
\* the missing value the left merge leaves in column especialidades
NaN == <<"NaN">>
\* ' / '
PathSep == <<" ", "/", " ">>
\* ', '  (SEPARATOR of GROUP_CONCAT, and the argument of str.split)
ListSep == <<",", " ">>
\* ','
Comma == <<",">>
\* 'Nenhuma'
Nenhuma == <<"N", "e", "n", "h", "u", "m", "a">>
\* 'COCB-N'
CocbnPrefix == <<"C", "O", "C", "B", "-", "N">>

\* reversed(path)
Reverse(s) == [k \in 1..Len(s) |-> s[Len(s) + 1 - k]]

\* sep.join(parts)
RECURSIVE Join(_, _)
Join(parts, sep) ==
    IF Len(parts) = 0 THEN <<>>
    ELSE IF Len(parts) = 1 THEN parts[1]
    ELSE parts[1] \o sep \o Join(Tail(parts), sep)

\* index of the first occurrence of sep in s, 0 when there is none
FindFirst(s, sep) ==
    LET hits == {k \in 1..(Len(s) - Len(sep) + 1) :
                    SubSeq(s, k, k + Len(sep) - 1) = sep}
    IN IF hits = {} THEN 0
       ELSE CHOOSE k \in hits : \A j \in hits : k <= j

\* s.split(sep)
RECURSIVE Split(_, _)
Split(s, sep) ==
    LET k == FindFirst(s, sep)
    IN IF k = 0 THEN <<s>>
       ELSE <<SubSeq(s, 1, k - 1)>> \o Split(SubSeq(s, k + Len(sep), Len(s)), sep)

\* s.strip()
Strip(s) ==
    LET ink == {k \in 1..Len(s) : s[k] # " "}
    IN IF ink = {} THEN <<>>
       ELSE SubSeq(s, CHOOSE k \in ink : \A j \in ink : k <= j,
                      CHOOSE k \in ink : \A j \in ink : k >= j)

\* s.startswith(prefix)
StartsWith(s, prefix) ==
    /\ Len(s) >= Len(prefix)
    /\ SubSeq(s, 1, Len(prefix)) = prefix

\* the elements of a sequence
Range(s) == {s[k] : k \in 1..Len(s)}

\* the sequences that list every element of S exactly once
Orders(S) == {s \in [1..Cardinality(S) -> S] : \A a, b \in 1..Cardinality(S) : a # b => s[a] # s[b]}

(* ------------------------- the lookup tables ------------------------ *)
\* table Posto_Graduacao: id_posto_graduacao -> sigla, descricao.  The id
\* is the precedence; the siglas are in the opposite alphabetical order.
Posto_Graduacao ==
    [id \in {1, 2} |->
        IF id = 1 THEN [sigla |-> "MAJ", descricao |-> "Major"]
        ELSE [sigla |-> "CAP", descricao |-> "Capitao"]]

\* table Quadro: id_quadro -> sigla, descricao
Quadro ==
    [id \in {1, 2} |->
        IF id = 1 THEN [sigla |-> "QOCBM", descricao |-> "Combatente"]
        ELSE [sigla |-> "QOSBM", descricao |-> "Saude"]]

\* column tipo_especialidade of table Especialidade.  The labels carry no
\* comma and no leading or trailing blank and none is 'Nenhuma'; one is a
\* substring of another and one has a blank inside.
LabelDe(e) ==
    CASE e = 1 -> <<"A">>
      [] e = 2 -> <<"A", " ", "B">>
      [] e = 3 -> <<"B">>
      [] OTHER -> <<"C">>

\* table Especialidade: id_especialidade -> tipo_especialidade
Especialidade == [e \in 1..NSpecs |-> LabelDe(e)]

\* column sigla of table Unidade
SiglaDe(u) ==
    CASE u = 1 -> CocbnPrefix
      [] u = 2 -> <<"B", "1">>
      [] u = 3 -> <<"C", "M", "D">>
      [] OTHER -> <<"U">>

\* column nome of table Militar (one name per member id)
NomeDe(m) ==
    CASE m = 1 -> "Ana"
      [] m = 2 -> "Bruno"
      [] m = 3 -> "Caio"
      [] OTHER -> "Davi"

VARIABLES
    Unidade,                \* table Unidade: id_unidade -> [sigla, id_unidade_fk]
    Militar,                \* table Militar, in the order its rows are returned
    militar_especialidade,  \* table militar_especialidade: pairs <<id_militar_fk, id_especialidade_fk>>
    pc,                     \* position in get_data / main
    unit_map,               \* get_data: unit_map
    df,                     \* get_data: df, then main: df
    df_especialidades,      \* get_data: df_especialidades, a set of rows
    applied,                \* the values df[...].apply has produced so far
    current_id,             \* get_unit_path_optimized: current_id
    path,                   \* get_unit_path_optimized: path
    hops,                   \* iterations of the while loop in the current call
    unidades_options,       \* main: the options of the four multiselects
    postos_options,
    quadros_options,
    especialidades_options,
    unidades,               \* main: the values selected in the four multiselects
    postos,
    quadros,
    especialidades,
    df_selection,           \* main: the rows of df_selection
    df_selection_columns,   \* main: the columns of df_selection
    total_militares,        \* main: the three KPIs
    total_unidades,
    total_postos

vars == <<Unidade, Militar, militar_especialidade, pc, unit_map, df,
          df_especialidades, applied, current_id, path, hops,
          unidades_options, postos_options, quadros_options,
          especialidades_options, unidades, postos, quadros, especialidades,
          df_selection, df_selection_columns, total_militares, total_unidades,
          total_postos>>

tables == <<Unidade, Militar, militar_especialidade>>
walk == <<applied, current_id, path, hops>>
options == <<unidades_options, postos_options, quadros_options, especialidades_options>>
selection == <<unidades, postos, quadros, especialidades>>
kpis == <<total_militares, total_unidades, total_postos>>
filtered == <<df_selection, df_selection_columns>>

(* ------------------------------ inputs ------------------------------ *)
\* The tables are read once, by Query.  Init draws them from three families:
\* every unit graph with one member (InitPaths), rosters that vary the rank
\* and corps ids of the members (InitAssembly), and rosters that vary the
\* units and the specialties of the members (InitFilter).  Member ids and
\* names are unique, link rows reference existing specialties.
\* a row of table Militar
MilitarRow(m, posto, quadro, unidade) ==
    [id_militar |-> m, nome |-> NomeDe(m), id_posto_graduacao_fk |-> posto,
     id_quadro_fk |-> quadro, id_unidade_atual_fk |-> unidade]

\* rows of table Unidade with the given parent links
UnidadeWith(parent) ==
    [u \in DOMAIN parent |-> [sigla |-> SiglaDe(u), id_unidade_fk |-> parent[u]]]

\* COCB-N (its parent link dangles) <- B1, and CMD (no parent) beside them
UnidadeRef == UnidadeWith(<<MissingId, 1, NULL>>)

\* every way to link NUnits units: no parent, any unit (itself included),
\* or a unit that is not in the table
UnidadeAny ==
    {UnidadeWith(parent) : parent \in [1..NUnits -> {NULL} \cup (1..NUnits) \cup {MissingId}]}

\* unit graphs: one member, placed in any unit, in none, or in a missing one
InitPaths ==
    /\ Unidade \in UnidadeAny
    /\ Militar \in {<<MilitarRow(1, 1, 1, u)>> : u \in {NULL} \cup (1..NUnits) \cup {MissingId}}
    /\ militar_especialidade = {}

\* up to MaxMembers members of unit B1, the rank and corps id of each
\* present or missing, each with or without the first specialty
RowsAssembly(k) ==
    {MilitarRow(k, posto, quadro, 2) :
        posto \in {1, 2, MissingId}, quadro \in {1, MissingId}}

InitAssembly ==
    /\ Unidade = UnidadeRef
    /\ \E len \in 0..MaxMembers :
          Militar \in {s \in [1..len -> UNION {RowsAssembly(k) : k \in 1..len}] :
                          \A k \in 1..len : s[k] \in RowsAssembly(k)}
    /\ militar_especialidade \in SUBSET ((1..Len(Militar)) \X {1})

\* two members of the same rank and of different corps, the first in
\* COCB-N or in CMD, the second in any unit, each with any set of specialties
RowsFilter(k) ==
    {MilitarRow(k, 1, k, unidade) : unidade \in IF k = 1 THEN {1, 3} ELSE 1..3}

InitFilter ==
    /\ Unidade = UnidadeRef
    /\ Militar \in {<<a, b>> : a \in RowsFilter(1), b \in RowsFilter(2)}
    /\ militar_especialidade \in SUBSET ((1..2) \X (1..NSpecs))

Init ==
    /\ \/ InitPaths
       \/ InitAssembly
       \/ InitFilter
    /\ pc = "query"
    /\ unit_map = <<>>
    /\ df = <<>>
    /\ df_especialidades = {}
    /\ applied = <<>>
    /\ current_id = NULL
    /\ path = <<>>
    /\ hops = 0
    /\ unidades_options = {}
    /\ postos_options = {}
    /\ quadros_options = {}
    /\ especialidades_options = {}
    /\ unidades = {}
    /\ postos = {}
    /\ quadros = {}
    /\ especialidades = {}
    /\ df_selection = <<>>
    /\ df_selection_columns = {}
    /\ total_militares = 0
    /\ total_unidades = 0
    /\ total_postos = 0

(* ------------------------ get_data: the queries --------------------- *)
\* SELECT ... FROM Militar m JOIN Posto_Graduacao pg ... JOIN Quadro q ...
JoinedRow(m) ==
    [id_militar |-> m.id_militar,
     nome |-> m.nome,
     id_posto_graduacao_fk |-> m.id_posto_graduacao_fk,
     id_quadro_fk |-> m.id_quadro_fk,
     id_unidade_atual_fk |-> m.id_unidade_atual_fk,
     id_posto_graduacao |-> m.id_posto_graduacao_fk,
     posto_graduacao_sigla |-> Posto_Graduacao[m.id_posto_graduacao_fk].sigla,
     posto_graduacao |-> Posto_Graduacao[m.id_posto_graduacao_fk].descricao,
     id_quadro |-> m.id_quadro_fk,
     quadro_sigla |-> Quadro[m.id_quadro_fk].sigla,
     quadro |-> Quadro[m.id_quadro_fk].descricao]

\* the ON conditions of the two inner joins
JoinMatches(m) ==
    /\ m.id_posto_graduacao_fk \in DOMAIN Posto_Graduacao
    /\ m.id_quadro_fk \in DOMAIN Quadro

QueryMilitar ==
    LET kept == SelectSeq(Militar, JoinMatches)
    IN [k \in 1..Len(kept) |-> JoinedRow(kept[k])]

\* militar_especialidade me JOIN Especialidade e: the specialties of a member
LinkedEsp(m) ==
    {e \in DOMAIN Especialidade : <<m, e>> \in militar_especialidade}

\* the member ids the GROUP BY yields a row for
Grouped == {l[1] : l \in {x \in militar_especialidade : x[2] \in DOMAIN Especialidade}}

\* GROUP_CONCAT(e.tipo_especialidade SEPARATOR ', ') for the rows in the given order
GroupConcat(order) ==
    Join([k \in 1..Len(order) |-> Especialidade[order[k]]], ListSep)

\* the possible results of the specialties query: GROUP_CONCAT has no ORDER
\* BY, so the labels of a group come in any order
QueryEspecialidades ==
    LET AllOrders == UNION {Orders(S) : S \in SUBSET DOMAIN Especialidade}
    IN {{[id_militar_fk |-> m, especialidades |-> GroupConcat(ord[m])] : m \in Grouped} :
            ord \in {o \in [Grouped -> AllOrders] :
                        \A m \in Grouped : o[m] \in Orders(LinkedEsp(m))}}

Query ==
    /\ pc = "query"
    /\ unit_map' = Unidade
    /\ df' = QueryMilitar
    /\ df_especialidades' \in QueryEspecialidades
    /\ pc' = "apply"
    /\ UNCHANGED <<tables, walk, options, selection, filtered, kpis>>

(* --------------- get_data: get_unit_path_optimized ------------------ *)
\* mutant of JoinedPath: the path is joined leaf first (reversed() left out)
JoinedPath_NoReverse(p) == Join(p, PathSep)

\* ' / '.join(reversed(path))
JoinedPath(p) == Join(Reverse(p), PathSep)

\* df['id_unidade_atual_fk'].apply(...): the call for the next row begins
\* (path = [], current_id = unit_id)
ApplyCall ==
    /\ pc = "apply"
    /\ Len(applied) < Len(df)
    /\ path' = <<>>
    /\ current_id' = df[Len(applied) + 1].id_unidade_atual_fk
    /\ hops' = 0
    /\ pc' = "walk"
    /\ UNCHANGED <<tables, unit_map, df, df_especialidades, applied, options,
                   selection, filtered, kpis>>

\* one iteration of the while loop with unit_info found: the sigla is
\* appended and current_id moves to the parent
WalkStep ==
    /\ pc = "walk"
    /\ current_id # NULL
    /\ current_id \in DOMAIN unit_map
    /\ hops < MaxHops
    /\ path' = Append(path, unit_map[current_id].sigla)
    /\ current_id' = unit_map[current_id].id_unidade_fk
    /\ hops' = hops + 1
    /\ UNCHANGED <<tables, pc, unit_map, df, df_especialidades, applied, options,
                   selection, filtered, kpis>>

\* unit_map.get(current_id) is None: break, then return
WalkBreak ==
    /\ pc = "walk"
    /\ current_id # NULL
    /\ current_id \notin DOMAIN unit_map
    /\ applied' = Append(applied, JoinedPath(path))
    /\ pc' = "apply"
    /\ UNCHANGED <<tables, unit_map, df, df_especialidades, current_id, path, hops,
                   options, selection, filtered, kpis>>

\* pd.notna(current_id) is false: the loop ends, then return
WalkExit ==
    /\ pc = "walk"
    /\ current_id = NULL
    /\ applied' = Append(applied, JoinedPath(path))
    /\ pc' = "apply"
    /\ UNCHANGED <<tables, unit_map, df, df_especialidades, current_id, path, hops,
                   options, selection, filtered, kpis>>

\* a row of df with column unidade
WithUnidade(r, u) ==
    [id_militar |-> r.id_militar,
     nome |-> r.nome,
     id_posto_graduacao_fk |-> r.id_posto_graduacao_fk,
     id_quadro_fk |-> r.id_quadro_fk,
     id_unidade_atual_fk |-> r.id_unidade_atual_fk,
     id_posto_graduacao |-> r.id_posto_graduacao,
     posto_graduacao_sigla |-> r.posto_graduacao_sigla,
     posto_graduacao |-> r.posto_graduacao,
     id_quadro |-> r.id_quadro,
     quadro_sigla |-> r.quadro_sigla,
     quadro |-> r.quadro,
     unidade |-> u]

\* df['unidade'] = ...: apply has gone through every row
AssignUnidade ==
    /\ pc = "apply"
    /\ Len(applied) = Len(df)
    /\ df' = [k \in 1..Len(df) |-> WithUnidade(df[k], applied[k])]
    /\ pc' = "merge"
    /\ UNCHANGED <<tables, unit_map, df_especialidades, walk, options, selection,
                   filtered, kpis>>

(* ---------------------- get_data: merge to return ------------------- *)
\* a row of the merged frame: the left row and the right row's columns
MergedRow(r, fk, esp) ==
    [id_militar |-> r.id_militar,
     nome |-> r.nome,
     id_posto_graduacao_fk |-> r.id_posto_graduacao_fk,
     id_quadro_fk |-> r.id_quadro_fk,
     id_unidade_atual_fk |-> r.id_unidade_atual_fk,
     id_posto_graduacao |-> r.id_posto_graduacao,
     posto_graduacao_sigla |-> r.posto_graduacao_sigla,
     posto_graduacao |-> r.posto_graduacao,
     id_quadro |-> r.id_quadro,
     quadro_sigla |-> r.quadro_sigla,
     quadro |-> r.quadro,
     unidade |-> r.unidade,
     id_militar_fk |-> fk,
     especialidades |-> esp]

\* mutant of MergeLeftRow: how='inner', a left row without a match is dropped
MergeLeftRow_Inner(r, right) ==
    LET hits == {g \in right : g.id_militar_fk = r.id_militar}
        ord == CHOOSE o \in Orders(hits) : TRUE
    IN [k \in 1..Len(ord) |-> MergedRow(r, ord[k].id_militar_fk, ord[k].especialidades)]

\* the rows a left row yields in pd.merge(..., how='left'): one per right
\* row with the same key, or one with missing values when there is none
MergeLeftRow(r, right) ==
    LET hits == {g \in right : g.id_militar_fk = r.id_militar}
    IN IF hits = {} THEN <<MergedRow(r, NULL, NaN)>>
       ELSE LET ord == CHOOSE o \in Orders(hits) : TRUE
            IN [k \in 1..Len(ord) |-> MergedRow(r, ord[k].id_militar_fk, ord[k].especialidades)]

\* pd.merge(left, right, left_on='id_militar', right_on='id_militar_fk', how='left')
RECURSIVE MergeLeft(_, _)
MergeLeft(left, right) ==
    IF left = <<>> THEN <<>>
    ELSE MergeLeftRow(Head(left), right) \o MergeLeft(Tail(left), right)

Merge ==
    /\ pc = "merge"
    /\ df' = MergeLeft(df, df_especialidades)
    /\ pc' = "fillna"
    /\ UNCHANGED <<tables, unit_map, df_especialidades, walk, options, selection,
                   filtered, kpis>>

\* Series.fillna('Nenhuma') on one value
FillNaValue(x) == IF x = NaN THEN Nenhuma ELSE x

FillNa ==
    /\ pc = "fillna"
    /\ df' = [k \in 1..Len(df) |->
                 MergedRow(df[k], df[k].id_militar_fk, FillNaValue(df[k].especialidades))]
    /\ pc' = "columns"
    /\ UNCHANGED <<tables, unit_map, df_especialidades, walk, options, selection,
                   filtered, kpis>>

\* df[[...]] and rename(columns={'id_unidade_atual_fk': 'id_unidade'})
CleanRow(r) ==
    [nome |-> r.nome,
     posto_graduacao_sigla |-> r.posto_graduacao_sigla,
     posto_graduacao |-> r.posto_graduacao,
     id_posto_graduacao |-> r.id_posto_graduacao,
     quadro_sigla |-> r.quadro_sigla,
     quadro |-> r.quadro,
     unidade |-> r.unidade,
     id_unidade |-> r.id_unidade_atual_fk,
     especialidades |-> r.especialidades]

\* the columns of the frame get_data returns
RosterColumns ==
    {"nome", "posto_graduacao_sigla", "posto_graduacao", "id_posto_graduacao",
     "quadro_sigla", "quadro", "unidade", "id_unidade", "especialidades"}

CleanColumns ==
    /\ pc = "columns"
    /\ df' = [k \in 1..Len(df) |-> CleanRow(df[k])]
    /\ pc' = "sort"
    /\ UNCHANGED <<tables, unit_map, df_especialidades, walk, options, selection,
                   filtered, kpis>>

\* mutant of KeyOrder: ascending=False
KeyOrder_Descending(a, b) == a >= b

\* the order sort_values puts two keys in
KeyOrder(a, b) == a <= b

\* the frames sort_values(by='id_posto_graduacao') can return: the rows in
\* ascending key order.  The default kind is quicksort, which is not
\* stable, so rows with equal keys come in any order.
SortValues(d) ==
    {[k \in 1..Len(d) |-> d[p[k]]] :
        p \in {q \in Orders(1..Len(d)) :
                 \A a, b \in 1..Len(d) :
                    a < b => KeyOrder(d[q[a]].id_posto_graduacao, d[q[b]].id_posto_graduacao)}}

\* sort_values(...).reset_index(drop=True); return df; main: df = get_data()
SortAndReturn ==
    /\ pc = "sort"
    /\ df' \in SortValues(df)
    /\ pc' = "options"
    /\ UNCHANGED <<tables, unit_map, df_especialidades, walk, options, selection,
                   filtered, kpis>>

(* --------------------------- main: filters -------------------------- *)
\* mutant of UnidadesOptions: every unit path of df is offered
UnidadesOptions_All(d) == {d[k].unidade : k \in 1..Len(d)}

\* unidades_options: the unit paths of df that start with 'COCB-N'.  The
\* options are kept as sets: their display order does not reach the filter.
UnidadesOptions(d) ==
    {d[k].unidade : k \in {j \in 1..Len(d) : StartsWith(d[j].unidade, CocbnPrefix)}}

\* postos_options
PostosOptions(d) == {d[k].posto_graduacao_sigla : k \in 1..Len(d)}

\* quadros_options
QuadrosOptions(d) == {d[k].quadro_sigla : k \in 1..Len(d)}

\* especialidades_options: the ', '-separated parts of column
\* especialidades, without 'Nenhuma'
EspecialidadesOptions(d) ==
    LET all_especialidades == UNION {Range(Split(d[k].especialidades, ListSep)) : k \in 1..Len(d)}
    IN {spec \in all_especialidades : spec # Nenhuma}

BuildOptions ==
    /\ pc = "options"
    /\ unidades_options' = UnidadesOptions(df)
    /\ postos_options' = PostosOptions(df)
    /\ quadros_options' = QuadrosOptions(df)
    /\ especialidades_options' = EspecialidadesOptions(df)
    /\ pc' = "select"
    /\ UNCHANGED <<tables, unit_map, df, df_especialidades, walk, selection,
                   filtered, kpis>>

\* the four st.sidebar.multiselect calls: each returns some of its options
\* (by default all of them, and none of the specialties)
Select ==
    /\ pc = "select"
    /\ unidades' \in SUBSET unidades_options
    /\ postos' \in SUBSET postos_options
    /\ quadros' \in SUBSET quadros_options
    /\ especialidades' \in SUBSET especialidades_options
    /\ pc' = "filter"
    /\ UNCHANGED <<tables, unit_map, df, df_especialidades, walk, options,
                   filtered, kpis>>

\* "unidade == @unidades and posto_graduacao_sigla == @postos and
\*  quadro_sigla == @quadros" on one row (== with a list is membership)
QueryMask(r, us, ps, qs) ==
    /\ r.unidade \in us
    /\ r.posto_graduacao_sigla \in ps
    /\ r.quadro_sigla \in qs

QueryFilter ==
    /\ pc = "filter"
    /\ df_selection' = SelectSeq(df, LAMBDA r : QueryMask(r, unidades, postos, quadros))
    /\ df_selection_columns' = RosterColumns
    /\ pc' = "mask"
    /\ UNCHANGED <<tables, unit_map, df, df_especialidades, walk, options,
                   selection, kpis>>

\* .astype(str) on one value of column especialidades
AsStr(x) == IF x = NaN THEN <<"n", "a", "n">> ELSE x

\* mutant of EspMatch: the selected specialty is looked for as a substring
\* of the field (esp.strip() in x)
EspMatch_Substring(x, esps) == \E esp \in esps : FindFirst(x, Strip(esp)) # 0

\* any(esp.strip() in (s.strip() for s in x.split(',')) for esp in especialidades)
EspMatch(x, esps) ==
    \E esp \in esps : Strip(esp) \in {Strip(s) : s \in Range(Split(x, Comma))}

\* mutant of EspFilterOn: the specialty mask is applied to an empty selection too
EspFilterOn_Always(esps) == TRUE

\* "if especialidades:"
EspFilterOn(esps) == esps # {}

\* whether mask_especialidades is a boolean Series.  Series.apply on an
\* empty Series returns an empty Series of the dtype of its input (object,
\* from astype(str)), not of bool.
MaskIsBoolean(d) == Len(d) > 0

\* lines 114-121: the specialty mask, applied when something is selected.
\* df_selection[mask] keeps the rows where a boolean mask is true; a mask
\* that is not boolean is taken as a list of column labels, and the empty
\* one selects no column.
EspMask ==
    /\ pc = "mask"
    /\ IF ~EspFilterOn(especialidades)
       THEN UNCHANGED filtered
       ELSE IF MaskIsBoolean(df_selection)
       THEN /\ df_selection' =
                  SelectSeq(df_selection,
                            LAMBDA r : EspMatch(AsStr(r.especialidades), especialidades))
            /\ UNCHANGED df_selection_columns
       ELSE /\ df_selection_columns' = {}
            /\ UNCHANGED df_selection
    /\ pc' = "kpis"
    /\ UNCHANGED <<tables, unit_map, df, df_especialidades, walk, options,
                   selection, kpis>>

\* df_selection.shape[0]
TotalMilitares(d) == Len(d)

\* len(df_selection['unidade'].unique())
TotalUnidades(d) == Cardinality({d[k].unidade : k \in 1..Len(d)})

\* len(df_selection['posto_graduacao_sigla'].unique())
TotalPostos(d) == Cardinality({d[k].posto_graduacao_sigla : k \in 1..Len(d)})

\* lines 124-126 with columns unidade and posto_graduacao_sigla present
KPIs ==
    /\ pc = "kpis"
    /\ {"unidade", "posto_graduacao_sigla"} \subseteq df_selection_columns
    /\ total_militares' = TotalMilitares(df_selection)
    /\ total_unidades' = TotalUnidades(df_selection)
    /\ total_postos' = TotalPostos(df_selection)
    /\ pc' = "done"
    /\ UNCHANGED <<tables, unit_map, df, df_especialidades, walk, options,
                   selection, filtered>>

\* line 124, then df_selection['unidade'] on a frame without that column:
\* KeyError, main ends there
KPIsKeyError ==
    /\ pc = "kpis"
    /\ "unidade" \notin df_selection_columns
    /\ total_militares' = TotalMilitares(df_selection)
    /\ pc' = "KeyError"
    /\ UNCHANGED <<tables, unit_map, df, df_especialidades, walk, options,
                   selection, filtered, total_unidades, total_postos>>

Next ==
    \/ Query
    \/ ApplyCall
    \/ WalkStep
    \/ WalkBreak
    \/ WalkExit
    \/ AssignUnidade
    \/ Merge
    \/ FillNa
    \/ CleanColumns
    \/ SortAndReturn
    \/ BuildOptions
    \/ Select
    \/ QueryFilter
    \/ EspMask
    \/ KPIs
    \/ KPIsKeyError

Spec == Init /\ [][Next]_vars

(* ====================== properties of the program =================== *)
\* get_data has returned: df is the roster main works on
Returned == pc \in {"options", "select", "filter", "mask", "kpis", "done", "KeyError"}

\* both filter steps of main have run
Filtered == pc \in {"kpis", "done", "KeyError"}

\* the position of the member called nome among the rows of table Militar
SourcePos(nome) == CHOOSE k \in 1..Len(Militar) : Militar[k].nome = nome

(* ------------------------------- C1 --------------------------------- *)
\* C1: for every unit set, one with a cycle in its parent links included,
\* the upward walk stops after at most as many hops (iterations) as there
\* are units in the set.
C1_HopBound == hops <= Cardinality(DOMAIN Unidade)

(* ------------------------------- C2 --------------------------------- *)
\* u has a parent id that is non-null and present in the unit set
HasParent(u) ==
    /\ Unidade[u].id_unidade_fk # NULL
    /\ Unidade[u].id_unidade_fk \in DOMAIN Unidade

\* the units reached from u in 1..n parent hops
RECURSIVE Ancestors(_, _)
Ancestors(u, n) ==
    IF n = 0 \/ ~HasParent(u) THEN {}
    ELSE {Unidade[u].id_unidade_fk} \cup Ancestors(Unidade[u].id_unidade_fk, n - 1)

\* no unit is its own ancestor
Acyclic == \A u \in DOMAIN Unidade : u \notin Ancestors(u, Cardinality(DOMAIN Unidade))

\* the path the claim gives unit u: the parent's path followed by u's
\* short code, or just the short code when u has no parent in the set
RECURSIVE ClaimedPath(_)
ClaimedPath(u) ==
    IF HasParent(u) THEN Append(ClaimedPath(Unidade[u].id_unidade_fk), Unidade[u].sigla)
    ELSE <<Unidade[u].sigla>>

\* C2: in an acyclic unit set the resolved path of every unit u is the
\* resolved path of its parent followed by u's short code when the parent
\* id is non-null and present, and exactly u's short code otherwise; the
\* path string is these segments, root first, joined by " / ", so a parent
\* chain of length n gives n+1 segments.
C2_PathRecurrence ==
    (Returned /\ Acyclic) =>
        \A k \in 1..Len(df) :
            df[k].id_unidade \in DOMAIN Unidade =>
                /\ df[k].unidade = Join(ClaimedPath(df[k].id_unidade), PathSep)
                /\ Split(df[k].unidade, PathSep) = ClaimedPath(df[k].id_unidade)
                /\ Len(Split(df[k].unidade, PathSep)) =
                       Cardinality(Ancestors(df[k].id_unidade, Cardinality(DOMAIN Unidade))) + 1

\* a member of a unit two parents below its root, in a set that also has a
\* dangling parent link, has its three-segment path
C2_Witness ==
    /\ pc = "done"
    /\ Acyclic
    /\ Len(df) = 1
    /\ df[1].id_unidade \in DOMAIN Unidade
    /\ Cardinality(Ancestors(df[1].id_unidade, Cardinality(DOMAIN Unidade))) = 2
    /\ \E u \in DOMAIN Unidade : Unidade[u].id_unidade_fk = MissingId
    /\ Len(Split(df[1].unidade, PathSep)) = 3

(* ------------------------------- C3 --------------------------------- *)
\* the labels of the specialties linked to the member called nome
LinkedLabels(nome) ==
    {Especialidade[e] : e \in LinkedEsp(Militar[SourcePos(nome)].id_militar)}

\* the predicate of the claim on one roster record
ClaimedMatch(r) ==
    /\ r.unidade \in unidades
    /\ r.posto_graduacao_sigla \in postos
    /\ r.quadro_sigla \in quadros
    /\ \/ especialidades = {}
       \/ LinkedLabels(r.nome) \cap especialidades # {}

\* C3: the filter returns exactly the records whose unit path, rank code
\* and corps code are in the selected sets and, unless no specialty is
\* selected, one of whose specialties is selected; an empty unit, rank or
\* corps set gives an empty result and an empty specialty set excludes
\* nothing.
C3_FilterPredicate ==
    Filtered =>
        /\ df_selection = SelectSeq(df, ClaimedMatch)
        /\ (unidades = {} \/ postos = {} \/ quadros = {}) => df_selection = <<>>
        /\ especialidades = {} =>
              df_selection = SelectSeq(df, LAMBDA r : QueryMask(r, unidades, postos, quadros))

\* a selection with a specialty chosen keeps one record and drops another
\* that differs from it only in its specialties
C3_Witness ==
    /\ pc = "done"
    /\ especialidades # {}
    /\ Len(df) = 2
    /\ Len(df_selection) = 1
    /\ \A k \in 1..2 : QueryMask(df[k], unidades, postos, quadros)

(* ------------------------------- C4 --------------------------------- *)
\* the delimiter-split, whitespace-trimmed specialty tokens of a record
ClaimedTokens(r) == {Strip(s) : s \in Range(Split(r.especialidades, Comma))}

\* C4: under a non-empty specialty selection a record that passes the
\* unit, rank and corps filter is kept if and only if one of its whole
\* specialty tokens equals a selected specialty, and a record whose
\* specialties are the sentinel "Nenhuma" is never kept.
C4_TokenMatch ==
    (Filtered /\ especialidades # {}) =>
        \A k \in 1..Len(df) :
            QueryMask(df[k], unidades, postos, quadros) =>
                /\ (\E j \in 1..Len(df_selection) : df_selection[j] = df[k])
                      <=> ClaimedTokens(df[k]) \cap especialidades # {}
                /\ df[k].especialidades = Nenhuma =>
                      \A j \in 1..Len(df_selection) : df_selection[j] # df[k]

\* "A" is selected; the record with "A, A B" (or "A B, A") is kept through
\* its trimmed token and the record with "A B" alone is dropped
C4_Witness ==
    /\ pc = "done"
    /\ especialidades = {<<"A">>}
    /\ Len(df) = 2
    /\ Len(df_selection) = 1
    /\ Len(Split(df_selection[1].especialidades, Comma)) = 2
    /\ \E k \in 1..2 :
          /\ df[k].especialidades = <<"A", " ", "B">>
          /\ QueryMask(df[k], unidades, postos, quadros)

(* ------------------------------- C5 --------------------------------- *)
\* the specialties linked to member m in table militar_especialidade
Links(m) == {l[2] : l \in {x \in militar_especialidade : x[1] = m}}

\* C5: after assembly every member with a valid rank and corps is in
\* exactly one roster record; its specialties are never empty or missing:
\* the sentinel "Nenhuma" exactly when the member has no specialty link,
\* otherwise the distinct labels linked to the member.
C5_OneRecordWithSpecialties ==
    Returned =>
        \A m \in 1..Len(Militar) :
            JoinMatches(Militar[m]) =>
                /\ Cardinality({k \in 1..Len(df) : df[k].nome = Militar[m].nome}) = 1
                /\ \A k \in 1..Len(df) :
                      df[k].nome = Militar[m].nome =>
                          LET esp == df[k].especialidades
                              parts == Split(esp, ListSep)
                          IN /\ esp # <<>>
                             /\ esp # NaN
                             /\ esp = Nenhuma <=> Links(Militar[m].id_militar) = {}
                             /\ esp # Nenhuma =>
                                   /\ \A a, b \in 1..Len(parts) : a # b => parts[a] # parts[b]
                                   /\ Range(parts) =
                                         {Especialidade[e] : e \in Links(Militar[m].id_militar)}

\* a roster with a member without specialties and a member with two
C5_Witness ==
    /\ pc = "done"
    /\ Len(df) = 2
    /\ \E a, b \in 1..2 :
          /\ df[a].especialidades = Nenhuma
          /\ Len(Split(df[b].especialidades, ListSep)) = 2

(* ------------------------------- C6 --------------------------------- *)
\* the rows of d are in ascending order of rank precedence id
AscendingByRank(d) ==
    \A a, b \in 1..Len(d) : a < b => d[a].id_posto_graduacao <= d[b].id_posto_graduacao

\* the rows of d at the positions in keep, in the order of d
Pick(d, keep) ==
    LET idx == SelectSeq([k \in 1..Len(d) |-> k], LAMBDA k : k \in keep)
    IN [j \in 1..Len(idx) |-> d[idx[j]]]

\* s is d with some rows left out and the others in their order
IsSubsequence(s, d) == \E keep \in SUBSET (1..Len(d)) : s = Pick(d, keep)

\* C6: the roster is in ascending order of rank precedence id whatever the
\* order of the source rows, and the filtered result is a subsequence of
\* the roster, so it is in ascending order too.
C6_RankOrderKept ==
    /\ Returned => AscendingByRank(df)
    /\ pc \in {"mask", "kpis", "done", "KeyError"} =>
          /\ IsSubsequence(df_selection, df)
          /\ AscendingByRank(df_selection)

\* the source lists a member of rank 2 before a member of rank 1, and the
\* filter keeps both
C6_Witness ==
    /\ pc = "done"
    /\ Len(Militar) = 2
    /\ Militar[1].id_posto_graduacao_fk = 2
    /\ Militar[2].id_posto_graduacao_fk = 1
    /\ Len(df_selection) = 2
    /\ df_selection[1].nome = Militar[2].nome

(* ------------------------------- C7 --------------------------------- *)
\* every offered unit, rank and corps value is selected, and no specialty
FullSelection ==
    /\ unidades = unidades_options
    /\ postos = postos_options
    /\ quadros = quadros_options
    /\ especialidades = {}

\* C7: filtering with the full selection returns the entire roster
\* unchanged.
C7_FullSelectionIsIdentity == (Filtered /\ FullSelection) => df_selection = df

\* C7, amended: filtering with the full selection returns, in roster
\* order, exactly the records whose unit path starts with 'COCB-N' (the
\* only unit paths offered as options).
C7_FullSelectionKeepsCocbn ==
    (Filtered /\ FullSelection) =>
        df_selection = SelectSeq(df, LAMBDA r : StartsWith(r.unidade, CocbnPrefix))

\* under the full selection one record is kept and one, of a unit outside
\* COCB-N, is dropped
C7_Witness ==
    /\ pc = "done"
    /\ FullSelection
    /\ Len(df) = 2
    /\ Len(df_selection) = 1

(* ------------------------------- C8 --------------------------------- *)
\* C8: a member whose rank id or corps id matches no row is never handled
\* silently: assembly fails instead of returning a roster (and no record
\* without a rank or corps is emitted).
C8_FailFast ==
    Returned =>
        /\ \A m \in 1..Len(Militar) : JoinMatches(Militar[m])
        /\ \A k \in 1..Len(df) :
              /\ df[k].id_posto_graduacao \in DOMAIN Posto_Graduacao
              /\ df[k].quadro_sigla \in {Quadro[q].sigla : q \in DOMAIN Quadro}

(* ------------------------------- C9 --------------------------------- *)
\* C9: the rank sort is stable: two members with the same rank precedence
\* id are in the roster in the order of their source rows.
C9_StableSort ==
    Returned =>
        \A a, b \in 1..Len(df) :
            (a < b /\ df[a].id_posto_graduacao = df[b].id_posto_graduacao) =>
                SourcePos(df[a].nome) < SourcePos(df[b].nome)

(* ------------------------------- C10 -------------------------------- *)
\* C10: for every roster and selection main produces the summary, and it
\* is a reduction of the filtered rows: their number, the
\* number of distinct unit paths and of distinct rank codes among them; so
\* neither distinct count exceeds the total and all three are 0 exactly
\* when nothing passed the filter.
C10_SummaryCounts ==
    pc \in {"done", "KeyError"} =>
        LET rows == {k \in 1..Len(df) : \E j \in 1..Len(df_selection) : df_selection[j] = df[k]}
        IN /\ pc = "done"
           /\ total_militares = Cardinality(rows)
           /\ total_unidades = Cardinality({df[k].unidade : k \in rows})
           /\ total_postos = Cardinality({df[k].posto_graduacao_sigla : k \in rows})
           /\ total_unidades <= total_militares
           /\ total_postos <= total_militares
           /\ (total_militares = 0 /\ total_unidades = 0 /\ total_postos = 0)
                  <=> df_selection = <<>>
           /\ (total_militares = 0 \/ total_unidades = 0 \/ total_postos = 0)
                  => df_selection = <<>>

====
